---- MODULE Spec2Model ----
(***************************************************************************)
(* Model of the audio report generators main.py (one page per language)   *)
(* and build_audio_pages.py (one page per engine).                         *)
(*                                                                         *)
(* Strings are sequences of one-character strings, so that lower(),       *)
(* strip(), pathlib's name/suffix/stem and Python's string ordering are   *)
(* computed, not assumed.  A path is a sequence of components; the file   *)
(* system is the set of paths that are regular files.                     *)
(***************************************************************************)
EXTENDS Integers, Sequences, FiniteSets, TLC

(***************************************************************************)
(* Bounds of the model.                                                    *)
(***************************************************************************)
MaxAudio == 3
MaxEntries == 3
MaxRows == 2

(***************************************************************************)
(* str methods                                                             *)
(***************************************************************************)
UpperChars == <<"A","B","C","D","E","F","G","H","I","J","K","L","M",
                "N","O","P","Q","R","S","T","U","V","W","X","Y","Z">>
LowerChars == <<"a","b","c","d","e","f","g","h","i","j","k","l","m",
                "n","o","p","q","r","s","t","u","v","w","x","y","z">>
DigitChars == <<"0","1","2","3","4","5","6","7","8","9">>

\* ord(c) for the ASCII characters the inputs are written with
OrdTable ==
  [c \in {UpperChars[i] : i \in 1..26} |->
     64 + (CHOOSE i \in 1..26 : UpperChars[i] = c)]
  @@ [c \in {LowerChars[i] : i \in 1..26} |->
     96 + (CHOOSE i \in 1..26 : LowerChars[i] = c)]
  @@ [c \in {DigitChars[i] : i \in 1..10} |->
     47 + (CHOOSE i \in 1..10 : DigitChars[i] = c)]
  @@ (" " :> 32) @@ ("-" :> 45) @@ ("." :> 46) @@ ("/" :> 47) @@ ("_" :> 95)

Ord(c) == OrdTable[c]

\* the lowercase letter of every uppercase letter
LowerTable ==
  [c \in {UpperChars[i] : i \in 1..26} |->
     LowerChars[CHOOSE i \in 1..26 : UpperChars[i] = c]]

LowerChar(c) == IF c \in DOMAIN LowerTable THEN LowerTable[c] ELSE c

\* str.lower()
Lower(s) == [i \in 1..Len(s) |-> LowerChar(s[i])]

\* str.strip(): leading and trailing whitespace removed
RECURSIVE LStrip(_)
LStrip(s) == IF s # <<>> /\ Head(s) = " " THEN LStrip(Tail(s)) ELSE s

RECURSIVE RStrip(_)
RStrip(s) ==
  IF s # <<>> /\ s[Len(s)] = " " THEN RStrip(SubSeq(s, 1, Len(s) - 1)) ELSE s

Strip(s) == RStrip(LStrip(s))

\* s < t for Python strings: code point order, a proper prefix is smaller
RECURSIVE StrLess(_, _)
StrLess(s, t) ==
  IF t = <<>> THEN FALSE
  ELSE IF s = <<>> THEN TRUE
  ELSE IF Head(s) # Head(t) THEN Ord(Head(s)) < Ord(Head(t))
  ELSE StrLess(Tail(s), Tail(t))

\* norm(s): (s or '').strip()
norm(s) == Strip(s)

(***************************************************************************)
(* pathlib                                                                 *)
(***************************************************************************)
\* the components of s between "/" separators, empty ones included
RECURSIVE SplitSlash(_, _)
SplitSlash(s, cur) ==
  IF s = <<>> THEN <<cur>>
  ELSE IF Head(s) = "/" THEN <<cur>> \o SplitSlash(Tail(s), <<>>)
  ELSE SplitSlash(Tail(s), Append(cur, Head(s)))

\* Path(s): whether s is absolute, and its components; empty and "."
\* components are dropped by the parser
ParsePath(s) ==
  LET raw == SplitSlash(s, <<>>)
      keep == SelectSeq(raw, LAMBDA c : c # <<>> /\ c # <<".">>)
  IN [abs |-> s # <<>> /\ Head(s) = "/", parts |-> keep]

\* Path(s).name: the last component, '' when there is none
PathName(s) ==
  LET parts == ParsePath(s).parts
  IN IF parts = <<>> THEN <<>> ELSE parts[Len(parts)]

\* name.rfind('.'), as a 1-based position, 0 when there is no dot
LastDot(name) ==
  IF \E i \in 1..Len(name) : name[i] = "."
    THEN CHOOSE i \in 1..Len(name) :
           name[i] = "." /\ \A j \in (i + 1)..Len(name) : name[j] # "."
    ELSE 0

\* PurePath.suffix: from the last dot, unless the dot is first or last
Suffix(name) ==
  LET i == LastDot(name)
  IN IF 1 < i /\ i < Len(name) THEN SubSeq(name, i, Len(name)) ELSE <<>>

\* PurePath.stem: the name without its suffix
Stem(name) ==
  LET i == LastDot(name)
  IN IF 1 < i /\ i < Len(name) THEN SubSeq(name, 1, i - 1) ELSE name

\* PurePath.as_posix() of a relative path: components joined by "/"
RECURSIVE AsPosix(_)
AsPosix(parts) ==
  IF parts = <<>> THEN <<".">>
  ELSE IF Len(parts) = 1 THEN parts[1]
  ELSE parts[1] \o <<"/">> \o AsPosix(Tail(parts))

IsPrefix(p, q) == Len(p) <= Len(q) /\ SubSeq(q, 1, Len(p)) = p

\* root / filename: an absolute filename replaces the root
JoinPath(root, filename) ==
  LET pf == ParsePath(filename)
  IN IF pf.abs THEN pf.parts ELSE root \o pf.parts

\* p.relative_to(root).as_posix(); ValueError when p is not below root
RelativeTo(p, root) ==
  IF IsPrefix(root, p)
    THEN [raised |-> FALSE, rel |-> AsPosix(SubSeq(p, Len(root) + 1, Len(p)))]
    ELSE [raised |-> TRUE, rel |-> <<>>]

(***************************************************************************)
(* Program constants and the names the inputs are built from               *)
(***************************************************************************)
ExtAac == <<".", "a", "a", "c">>
ExtAcc == <<".", "a", "c", "c">>
ExtM4a == <<".", "m", "4", "a">>

AUDIO_EXTS == {ExtAac, ExtAcc, ExtM4a}

\* the orders in which a run may iterate over the set AUDIO_EXTS
ExtOrders == {o \in [1..3 -> AUDIO_EXTS] : \A i, j \in 1..3 : i # j => o[i] # o[j]}

Root == << <<"r">> >>

Unknown == <<"u","n","k","n","o","w","n">>
ExtHtml == <<".","h","t","m","l">>
ExtCsv == <<".","c","s","v">>
IndexHtml == <<"i","n","d","e","x">> \o ExtHtml

KeyLang == <<"l","a","n","g">>
KeyEngine == <<"e","n","g","i","n","e">>
KeyVoice == <<"v","o","i","c","e">>
KeyGender == <<"g","e","n","d","e","r">>
KeyFilename == <<"f","i","l","e","n","a","m","e">>

VARIABLES
  program,     \* "language" (main.py) or "provider" (build_audio_pages.py)
  files,       \* the regular files of the file system, as absolute paths
  content,     \* what csv.reader yields for each tabular file
  unreadable,  \* the tabular files whose bytes are not valid UTF-8
  table,       \* the module-level dict CODE_TO_NAME of the process
  extOrder,    \* the iteration order of AUDIO_EXTS in this process
  pc,          \* position of main()
  exitStatus,  \* the exit status of the process, -1 while it runs
  visited,     \* the paths root.rglob('*') has yielded so far, in order
  mapping,     \* scan_audio_files: lowercased basename -> relative path
  duplicates,  \* scan_audio_files: lowercased basename -> shadowed paths
  csvs,        \* the list find_csvs returned
  rows,        \* the rows loaded so far
  done,        \* how many items the current loop of main() has processed
  groups,      \* by_lang / by_engine: <<key, entries>> in insertion order
  summary,     \* the summary list of main()
  pages,       \* the HTML files written: file name -> what the page shows
  run,         \* 1 in the first run on the directory, 2 in the second
  prev,        \* what the first run produced
  call         \* the last direct call of a function and its result

inputVars == <<program, files, content, unreadable, table>>
scanVars == <<visited, mapping, duplicates>>
mainVars == <<csvs, rows, done, groups, summary, pages>>
vars == <<program, files, content, unreadable, table, extOrder, pc, exitStatus, visited, mapping,
          duplicates, csvs, rows, done, groups, summary, pages, run, prev, call>>

(***************************************************************************)
(* scan_audio_files                                                        *)
(***************************************************************************)
\* what root.rglob('*') yields that is_file(): the regular files below root
FilesBelow(root) == {p \in files : IsPrefix(root, p) /\ Len(p) > Len(root)}

IsAudio(p) == Lower(Suffix(p[Len(p)])) \in AUDIO_EXTS

\* ScanFile with the bug that a later file of a basename takes the entry over
ScanFileLastWins(p) ==
  /\ pc = "scan"
  /\ p \in FilesBelow(Root)
  /\ \A i \in 1..Len(visited) : visited[i] # p
  /\ visited' = Append(visited, p)
  /\ IF IsAudio(p)
       THEN LET key == Lower(p[Len(p)])
                rel == RelativeTo(p, Root).rel
            IN IF key \in DOMAIN mapping
                 THEN /\ duplicates' =
                           IF key \in DOMAIN duplicates
                             THEN [duplicates EXCEPT ![key] = Append(@, mapping[key])]
                             ELSE duplicates @@ (key :> <<mapping[key]>>)
                      /\ mapping' = [mapping EXCEPT ![key] = rel]
                 ELSE /\ mapping' = mapping @@ (key :> rel)
                      /\ UNCHANGED duplicates
       ELSE UNCHANGED <<mapping, duplicates>>
  /\ UNCHANGED <<inputVars, extOrder, pc, exitStatus, mainVars, run, prev, call>>

\* ScanFile with the bug that a later file of a basename is recorded as a
\* duplicate and takes the entry over as well
ScanFileOverwrites(p) ==
  /\ pc = "scan"
  /\ p \in FilesBelow(Root)
  /\ \A i \in 1..Len(visited) : visited[i] # p
  /\ visited' = Append(visited, p)
  /\ IF IsAudio(p)
       THEN LET key == Lower(p[Len(p)])
                rel == RelativeTo(p, Root).rel
            IN IF key \in DOMAIN mapping
                 THEN /\ duplicates' =
                           IF key \in DOMAIN duplicates
                             THEN [duplicates EXCEPT ![key] = Append(@, rel)]
                             ELSE duplicates @@ (key :> <<rel>>)
                      /\ mapping' = [mapping EXCEPT ![key] = rel]
                 ELSE /\ mapping' = mapping @@ (key :> rel)
                      /\ UNCHANGED duplicates
       ELSE UNCHANGED <<mapping, duplicates>>
  /\ UNCHANGED <<inputVars, extOrder, pc, exitStatus, mainVars, run, prev, call>>

\* one iteration of the loop over root.rglob('*'); the traversal order is
\* whatever the file system yields
ScanFile(p) ==
  /\ pc = "scan"
  /\ p \in FilesBelow(Root)
  /\ \A i \in 1..Len(visited) : visited[i] # p
  /\ visited' = Append(visited, p)
  /\ IF IsAudio(p)
       THEN LET key == Lower(p[Len(p)])
                rel == RelativeTo(p, Root).rel
            IN IF key \in DOMAIN mapping
                 THEN /\ duplicates' =
                           IF key \in DOMAIN duplicates
                             THEN [duplicates EXCEPT ![key] = Append(@, rel)]
                             ELSE duplicates @@ (key :> <<rel>>)
                      /\ UNCHANGED mapping
                 ELSE /\ mapping' = mapping @@ (key :> rel)
                      /\ UNCHANGED duplicates
       ELSE UNCHANGED <<mapping, duplicates>>
  /\ UNCHANGED <<inputVars, extOrder, pc, exitStatus, mainVars, run, prev, call>>

(***************************************************************************)
(* resolve_audio_path                                                      *)
(***************************************************************************)
\* p.exists() and p.is_file(): an input file or a page written earlier
IsFile(p) == p \in files \/ p \in DOMAIN pages

\* the first extension, in the iteration order of AUDIO_EXTS, under which
\* the stem is a key of the index; 0 when there is none
FirstExtMatch(stem, audio_index, order) ==
  LET hits == {i \in 1..Len(order) : Lower(stem \o order[i]) \in DOMAIN audio_index}
  IN IF hits = {} THEN 0 ELSE CHOOSE i \in hits : \A j \in hits : i <= j

\* resolve_audio_path with the bug that the index is consulted before the
\* literal path
resolve_index_first(root, filename, audio_index, order) ==
  LET p == JoinPath(root, filename)
      base == Lower(PathName(filename))
      stem == Stem(PathName(filename))
      k == FirstExtMatch(stem, audio_index, order)
  IN IF filename = <<>>
       THEN [raised |-> FALSE, relpath |-> filename, exists |-> FALSE]
     ELSE IF base \in DOMAIN audio_index
       THEN [raised |-> FALSE, relpath |-> audio_index[base], exists |-> TRUE]
     ELSE IF IsFile(p)
       THEN IF RelativeTo(p, root).raised
              THEN [raised |-> TRUE, relpath |-> <<>>, exists |-> FALSE]
              ELSE [raised |-> FALSE, relpath |-> RelativeTo(p, root).rel,
                    exists |-> TRUE]
     ELSE IF k # 0
       THEN [raised |-> FALSE,
             relpath |-> audio_index[Lower(stem \o order[k])], exists |-> TRUE]
     ELSE [raised |-> FALSE, relpath |-> filename, exists |-> FALSE]

\* resolve_audio_path with the bug that the basename is looked up as written
resolve_no_lower(root, filename, audio_index, order) ==
  LET p == JoinPath(root, filename)
      base == PathName(filename)
      stem == Stem(PathName(filename))
      k == FirstExtMatch(stem, audio_index, order)
  IN IF filename = <<>>
       THEN [raised |-> FALSE, relpath |-> filename, exists |-> FALSE]
     ELSE IF IsFile(p)
       THEN IF RelativeTo(p, root).raised
              THEN [raised |-> TRUE, relpath |-> <<>>, exists |-> FALSE]
              ELSE [raised |-> FALSE, relpath |-> RelativeTo(p, root).rel,
                    exists |-> TRUE]
     ELSE IF base \in DOMAIN audio_index
       THEN [raised |-> FALSE, relpath |-> audio_index[base], exists |-> TRUE]
     ELSE IF k # 0
       THEN [raised |-> FALSE,
             relpath |-> audio_index[Lower(stem \o order[k])], exists |-> TRUE]
     ELSE [raised |-> FALSE, relpath |-> filename, exists |-> FALSE]

\* resolve_audio_path with the bug that the guard for an empty filename is
\* missing and the literal path is only tested with exists()
resolve_no_guard(root, filename, audio_index, order) ==
  LET p == JoinPath(root, filename)
      base == Lower(PathName(filename))
      stem == Stem(PathName(filename))
      k == FirstExtMatch(stem, audio_index, order)
  IN IF IsFile(p) \/ p = root
       THEN IF RelativeTo(p, root).raised
              THEN [raised |-> TRUE, relpath |-> <<>>, exists |-> FALSE]
              ELSE [raised |-> FALSE, relpath |-> RelativeTo(p, root).rel,
                    exists |-> TRUE]
     ELSE IF base \in DOMAIN audio_index
       THEN [raised |-> FALSE, relpath |-> audio_index[base], exists |-> TRUE]
     ELSE IF k # 0
       THEN [raised |-> FALSE,
             relpath |-> audio_index[Lower(stem \o order[k])], exists |-> TRUE]
     ELSE [raised |-> FALSE, relpath |-> filename, exists |-> FALSE]

\* resolve_audio_path with the bug that a miss returns the basename
resolve_miss_basename(root, filename, audio_index, order) ==
  LET p == JoinPath(root, filename)
      base == Lower(PathName(filename))
      stem == Stem(PathName(filename))
      k == FirstExtMatch(stem, audio_index, order)
  IN IF filename = <<>>
       THEN [raised |-> FALSE, relpath |-> filename, exists |-> FALSE]
     ELSE IF IsFile(p)
       THEN IF RelativeTo(p, root).raised
              THEN [raised |-> TRUE, relpath |-> <<>>, exists |-> FALSE]
              ELSE [raised |-> FALSE, relpath |-> RelativeTo(p, root).rel,
                    exists |-> TRUE]
     ELSE IF base \in DOMAIN audio_index
       THEN [raised |-> FALSE, relpath |-> audio_index[base], exists |-> TRUE]
     ELSE IF k # 0
       THEN [raised |-> FALSE,
             relpath |-> audio_index[Lower(stem \o order[k])], exists |-> TRUE]
     ELSE [raised |-> FALSE, relpath |-> PathName(filename), exists |-> FALSE]

\* (relpath, exists) for the audio file; raised when relative_to() raises
resolve_audio_path(root, filename, audio_index, order) ==
  LET p == JoinPath(root, filename)
      base == Lower(PathName(filename))
      stem == Stem(PathName(filename))
      k == FirstExtMatch(stem, audio_index, order)
  IN IF filename = <<>>
       THEN [raised |-> FALSE, relpath |-> filename, exists |-> FALSE]
     ELSE IF IsFile(p)
       THEN IF RelativeTo(p, root).raised
              THEN [raised |-> TRUE, relpath |-> <<>>, exists |-> FALSE]
              ELSE [raised |-> FALSE, relpath |-> RelativeTo(p, root).rel,
                    exists |-> TRUE]
     ELSE IF base \in DOMAIN audio_index
       THEN [raised |-> FALSE, relpath |-> audio_index[base], exists |-> TRUE]
     ELSE IF k # 0
       THEN [raised |-> FALSE,
             relpath |-> audio_index[Lower(stem \o order[k])], exists |-> TRUE]
     ELSE [raised |-> FALSE, relpath |-> filename, exists |-> FALSE]

(***************************************************************************)
(* engine_slug, dedupe_by_voice                                            *)
(***************************************************************************)
\* (e or 'unknown').strip().lower()
engine_slug(e) == Lower(Strip(IF e = <<>> THEN Unknown ELSE e))

\* dedupe_by_voice with the bug that the sort key leaves out the presence
\* flag
DedupeKeyNoPresence(a, b) ==
  IF engine_slug(a.engine) # engine_slug(b.engine)
    THEN StrLess(engine_slug(a.engine), engine_slug(b.engine))
  ELSE IF a.voice # b.voice THEN StrLess(a.voice, b.voice)
  ELSE StrLess(a.filename, b.filename)

\* dedupe_by_voice with the bug that the sort key takes the engine as
\* written
DedupeKeyRawEngine(a, b) ==
  IF a.exists # b.exists THEN a.exists
  ELSE IF a.engine # b.engine THEN StrLess(a.engine, b.engine)
  ELSE IF a.voice # b.voice THEN StrLess(a.voice, b.voice)
  ELSE StrLess(a.filename, b.filename)

\* the sort key of dedupe_by_voice compares smaller:
\* (not exists, engine_slug(engine), voice, filename)
DedupeKeyLess(a, b) ==
  IF a.exists # b.exists THEN a.exists
  ELSE IF engine_slug(a.engine) # engine_slug(b.engine)
    THEN StrLess(engine_slug(a.engine), engine_slug(b.engine))
  ELSE IF a.voice # b.voice THEN StrLess(a.voice, b.voice)
  ELSE StrLess(a.filename, b.filename)

\* sorted(entries, key=...) of dedupe_by_voice: stable, an entry moves in
\* front of another only when its key is smaller
SortedForDedupe(entries) ==
  LET n == Len(entries)
      Rank(i) == Cardinality({j \in 1..n :
                    \/ DedupeKeyLess(entries[j], entries[i])
                    \/ (~DedupeKeyLess(entries[i], entries[j]) /\ j < i)})
  IN [k \in 1..n |-> entries[CHOOSE i \in 1..n : Rank(i) = k - 1]]

\* the voice key of an entry: norm(voice).lower()
VoiceKey(e) == Lower(norm(e.voice))

\* dedupe_by_voice with the bug that a voice key is never recorded as seen
RECURSIVE DedupeLoopNoSeen(_, _, _)
DedupeLoopNoSeen(sorted, i, seen) ==
  IF i > Len(sorted) THEN <<>>
  ELSE LET e == sorted[i]
           v == VoiceKey(e)
       IN IF v # <<>> /\ v \in seen
            THEN DedupeLoopNoSeen(sorted, i + 1, seen)
            ELSE <<e>> \o DedupeLoopNoSeen(sorted, i + 1, seen)

\* the loop of dedupe_by_voice over the sorted entries, from position i
RECURSIVE DedupeLoop(_, _, _)
DedupeLoop(sorted, i, seen) ==
  IF i > Len(sorted) THEN <<>>
  ELSE LET e == sorted[i]
           v == VoiceKey(e)
       IN IF v # <<>> /\ v \in seen
            THEN DedupeLoop(sorted, i + 1, seen)
            ELSE <<e>> \o DedupeLoop(sorted, i + 1,
                                      IF v # <<>> THEN seen \cup {v} ELSE seen)

dedupe_by_voice(entries) == DedupeLoop(SortedForDedupe(entries), 1, {})

(***************************************************************************)
(* lang_name                                                               *)
(***************************************************************************)
\* entries of the dict CODE_TO_NAME: two plain codes, the code of China and
\* one of its regions
CODE_TO_NAME ==
  (<<"s", "q", "-", "A", "L">> :> <<"A", "l", "b", "a", "n", "i", "a", "n">>)
  @@ (<<"e", "n", "-", "U", "S">> :> <<"E", "n", "g", "l", "i", "s", "h", " ", "(", "U", "n", "i", "t", "e", "d", " ", "S", "t", "a", "t", "e", "s", ")">>)
  @@ (<<"z", "h", "-", "C", "N">> :> <<"C", "h", "i", "n", "e", "s", "e", " ", "(", "C", "h", "i", "n", "a", ")">>)
  @@ (<<"z", "h", "-", "C", "N", "-", "h", "e", "n", "a", "n">> :> <<"C", "h", "i", "n", "e", "s", "e", " ", "(", "H", "e", "n", "a", "n", ",", " ", "C", "h", "i", "n", "a", ")">>)

\* the uppercase letter of every lowercase letter
UpperTable ==
  [c \in {LowerChars[i] : i \in 1..26} |->
     UpperChars[CHOOSE i \in 1..26 : LowerChars[i] = c]]

UpperChar(c) == IF c \in DOMAIN UpperTable THEN UpperTable[c] ELSE c

\* str.upper()
Upper(s) == [i \in 1..Len(s) |-> UpperChar(s[i])]

IsLetter(c) == c \in DOMAIN UpperTable \/ c \in DOMAIN LowerTable

\* str.title(): a letter that follows no letter is uppercased, every other
\* letter lowercased
Title(s) ==
  [i \in 1..Len(s) |->
     IF i = 1 \/ ~IsLetter(s[i - 1]) THEN UpperChar(s[i]) ELSE LowerChar(s[i])]

\* s.replace('_', ' ')
ReplaceUnderscore(s) == [i \in 1..Len(s) |-> IF s[i] = "_" THEN " " ELSE s[i]]

\* s.split('-'), from the part cur begun so far
RECURSIVE SplitDash(_, _)
SplitDash(s, cur) ==
  IF s = <<>> THEN <<cur>>
  ELSE IF Head(s) = "-" THEN <<cur>> \o SplitDash(Tail(s), <<>>)
  ELSE SplitDash(Tail(s), Append(cur, Head(s)))

\* '-'.join(parts)
RECURSIVE JoinDash(_)
JoinDash(parts) ==
  IF parts = <<>> THEN <<>>
  ELSE IF Len(parts) = 1 THEN parts[1]
  ELSE parts[1] \o <<"-">> \o JoinDash(Tail(parts))

\* lang_name with the bug that the code is not stripped
lang_name_no_strip(code) ==
  LET parts == SplitDash(code, <<>>)
  IN IF code \in DOMAIN table THEN table[code]
     ELSE IF Len(parts) >= 3 /\ Lower(parts[1]) = <<"z", "h">> /\ Upper(parts[2]) = <<"C", "N">>
       THEN <<"C", "h", "i", "n", "e", "s", "e", " ", "(">>
            \o Title(ReplaceUnderscore(JoinDash(SubSeq(parts, 3, Len(parts)))))
            \o <<",", " ", "C", "h", "i", "n", "a", ")">>
     ELSE IF code = <<>> THEN Unknown ELSE code

\* the display name of a language code
lang_name(code) ==
  LET c == Strip(code)
      parts == SplitDash(c, <<>>)
  IN IF c \in DOMAIN table THEN table[c]
     ELSE IF Len(parts) >= 3 /\ Lower(parts[1]) = <<"z", "h">> /\ Upper(parts[2]) = <<"C", "N">>
       THEN <<"C", "h", "i", "n", "e", "s", "e", " ", "(">>
            \o Title(ReplaceUnderscore(JoinDash(SubSeq(parts, 3, Len(parts)))))
            \o <<",", " ", "C", "h", "i", "n", "a", ")">>
     ELSE IF c = <<>> THEN Unknown ELSE c

(***************************************************************************)
(* find_csvs, read_rows_from_csv                                           *)
(***************************************************************************)
EndsWith(s, t) == Len(s) >= Len(t) /\ SubSeq(s, Len(s) - Len(t) + 1, Len(s)) = t

\* root.rglob('*.csv'), as a set: the order of the list is the traversal's
CsvPaths(root) == {p \in FilesBelow(root) : EndsWith(p[Len(p)], ExtCsv)}

\* row.get(field_map.get(key, key), ''), normed.  field_map keeps the last
\* header whose stripped, lowercased name is the key; DictReader keeps the
\* last cell under a repeated header and None under a header past the row
Get(fieldnames, cells, key) ==
  LET I == {i \in 1..Len(fieldnames) : Lower(Strip(fieldnames[i])) = key}
      k == IF I = {} THEN key
           ELSE fieldnames[CHOOSE i \in I : \A j \in I : j <= i]
      J == {j \in 1..Len(fieldnames) : fieldnames[j] = k}
      jmax == CHOOSE j \in J : \A m \in J : m <= j
  IN IF J = {} \/ jmax > Len(cells) THEN <<>> ELSE norm(cells[jmax])

\* s or 'unknown'
OrUnknown(s) == IF s = <<>> THEN Unknown ELSE s

\* the rows DictReader yields: those after the header that are not []
DataRows(lines) == SelectSeq(Tail(lines), LAMBDA l : l.cells # <<>>)

\* the records of one tabular file; only main.py defaults lang and engine
read_rows_from_csv(csv_path, root, prog) ==
  LET lines == content[csv_path]
      fieldnames == IF lines = <<>> THEN <<>> ELSE lines[1].cells
      data == DataRows(lines)
  IN IF fieldnames = <<>> THEN <<>>
     ELSE [i \in 1..Len(data) |->
            LET lang == Get(fieldnames, data[i].cells, KeyLang)
                engine == Get(fieldnames, data[i].cells, KeyEngine)
            IN [source_csv |-> RelativeTo(csv_path, root).rel,
                rownum |-> i + 1,
                lang |-> IF prog = "language" THEN OrUnknown(lang) ELSE lang,
                engine |-> IF prog = "language" THEN OrUnknown(engine) ELSE engine,
                voice |-> Get(fieldnames, data[i].cells, KeyVoice),
                gender |-> Get(fieldnames, data[i].cells, KeyGender),
                filename |-> Get(fieldnames, data[i].cells, KeyFilename)]]

(***************************************************************************)
(* main                                                                    *)
(***************************************************************************)
\* the orders in which a traversal may yield the elements of S
Orders(S) ==
  {o \in [1..Cardinality(S) -> S] :
     \A i, j \in 1..Cardinality(S) : i # j => o[i] # o[j]}

\* the grouping key of a record: r.get('lang') or 'unknown' in main.py,
\* r.get('engine') or 'unknown' in build_audio_pages.py
GroupKey(r) == IF program = "language" THEN OrUnknown(r.lang) ELSE OrUnknown(r.engine)

\* AddToGroup with the bug that a record replaces the list of its group
AddToGroupReplaces(gs, key, r) ==
  IF \E i \in 1..Len(gs) : gs[i].key = key
    THEN [i \in 1..Len(gs) |->
            IF gs[i].key = key
              THEN [key |-> key, entries |-> <<r>>]
              ELSE gs[i]]
    ELSE Append(gs, [key |-> key, entries |-> <<r>>])

\* by_key[key].append(r) on a defaultdict(list) that keeps insertion order
AddToGroup(gs, key, r) ==
  IF \E i \in 1..Len(gs) : gs[i].key = key
    THEN [i \in 1..Len(gs) |->
            IF gs[i].key = key
              THEN [key |-> key, entries |-> Append(gs[i].entries, r)]
              ELSE gs[i]]
    ELSE Append(gs, [key |-> key, entries |-> <<r>>])

\* sorted(by_key.items(), key=lambda kv: kv[0].lower())
GroupLess(g, h) == StrLess(Lower(g.key), Lower(h.key))

\* the display order inside a page: (engine_slug, voice) in main.py,
\* (lang, voice, filename) in build_audio_pages.py
EntryLess(a, b) ==
  IF program = "language"
    THEN IF engine_slug(a.engine) # engine_slug(b.engine)
           THEN StrLess(engine_slug(a.engine), engine_slug(b.engine))
           ELSE StrLess(a.voice, b.voice)
    ELSE IF a.lang # b.lang THEN StrLess(a.lang, b.lang)
         ELSE IF a.voice # b.voice THEN StrLess(a.voice, b.voice)
         ELSE StrLess(a.filename, b.filename)

\* sorted(by_key.items(), ...): stable
SortedGroups(gs) ==
  LET n == Len(gs)
      Rank(i) == Cardinality({j \in 1..n :
                    \/ GroupLess(gs[j], gs[i])
                    \/ (~GroupLess(gs[i], gs[j]) /\ j < i)})
  IN [k \in 1..n |-> gs[CHOOSE i \in 1..n : Rank(i) = k - 1]]

\* entries.sort(key=...): stable
SortedEntries(entries) ==
  LET n == Len(entries)
      Rank(i) == Cardinality({j \in 1..n :
                    \/ EntryLess(entries[j], entries[i])
                    \/ (~EntryLess(entries[i], entries[j]) /\ j < i)})
  IN [k \in 1..n |-> entries[CHOOSE i \in 1..n : Rank(i) = k - 1]]

\* the name of a group's page: f"{lang_code}.html" in main.py,
\* f"{engine.lower()}.html" in build_audio_pages.py
PageName(key) == (IF program = "language" THEN key ELSE Lower(key)) \o ExtHtml

\* whether p is a directory: the root, or a directory a file lies in
IsDir(p) == p = Root \/ \E f \in files : IsPrefix(p, f) /\ Len(p) < Len(f)

Found(entries) == Cardinality({i \in 1..Len(entries) : entries[i].exists})

\* scan_audio_files has returned (its loop state is gone); find_csvs lists the tabular files, and
\* main returns 2 when there is none
FindCsvs ==
  /\ pc = "scan"
  /\ Len(visited) = Cardinality(FilesBelow(Root))
  /\ \E o \in Orders(CsvPaths(Root)) : csvs' = o
  /\ IF CsvPaths(Root) = {}
       THEN pc' = "done" /\ exitStatus' = 2
       ELSE pc' = "load" /\ UNCHANGED exitStatus
  /\ visited' = <<>>
  /\ UNCHANGED <<inputVars, extOrder, mapping, duplicates, rows, done, groups,
                 summary, pages, run, prev, call>>

\* one iteration of: for c in csvs: rows.extend(read_rows_from_csv(c, root))
\* the UnicodeDecodeError of a file that is not UTF-8 ends the process
LoadCsv ==
  /\ pc = "load"
  /\ IF csvs[done + 1] \in unreadable
       THEN /\ pc' = "done"
            /\ exitStatus' = 1
            /\ UNCHANGED <<rows, done>>
       ELSE /\ rows' = rows \o read_rows_from_csv(csvs[done + 1], Root, program)
            /\ IF done + 1 < Len(csvs)
                 THEN done' = done + 1 /\ UNCHANGED pc
                 ELSE done' = 0 /\
                      pc' = IF rows' = <<>> THEN "index" ELSE "resolve"
            /\ UNCHANGED exitStatus
  /\ UNCHANGED <<inputVars, extOrder, scanVars, csvs, groups,
                 summary, pages, run, prev, call>>

\* one iteration of the loop that resolves a row and files it in its
\* group; an exception of resolve_audio_path ends the process
ResolveRow ==
  /\ pc = "resolve"
  /\ LET r == rows[done + 1]
         res == resolve_audio_path(Root, r.filename, mapping, extOrder)
         r2 == [source_csv |-> r.source_csv, rownum |-> r.rownum,
                lang |-> r.lang, engine |-> r.engine, voice |-> r.voice,
                gender |-> r.gender, filename |-> r.filename,
                relpath |-> res.relpath, exists |-> res.exists]
     IN IF res.raised
          THEN /\ pc' = "done"
               /\ exitStatus' = 1
               /\ UNCHANGED <<rows, done, groups>>
          ELSE /\ rows' = [rows EXCEPT ![done + 1] = r2]
               /\ groups' = AddToGroup(groups, GroupKey(r), r2)
               /\ IF done + 1 < Len(rows)
                    THEN done' = done + 1 /\ UNCHANGED pc
                    ELSE done' = 0 /\
                         pc' = IF program = "language" THEN "dedupe" ELSE "emit"
               /\ UNCHANGED exitStatus
  /\ UNCHANGED <<inputVars, extOrder, scanVars, csvs, summary, pages,
                 run, prev, call>>

\* one iteration of: by_lang[lang_code] = dedupe_by_voice(entries)
DedupeGroup ==
  /\ pc = "dedupe"
  /\ groups' = [groups EXCEPT ![done + 1].entries = dedupe_by_voice(@)]
  /\ IF done + 1 < Len(groups)
       THEN done' = done + 1 /\ UNCHANGED pc
       ELSE done' = 0 /\ pc' = "emit"
  /\ UNCHANGED <<inputVars, extOrder, exitStatus, scanVars, csvs, rows,
                 summary, pages, run, prev, call>>

\* one iteration of the loop that sorts a group, writes its page and adds
\* its line to the summary; write_text raises when the page's directory
\* does not exist
EmitPage ==
  /\ pc = "emit"
  /\ LET order == SortedGroups(groups)
         g == order[done + 1]
         entries == SortedEntries(g.entries)
         name == PageName(g.key)
         out_path == JoinPath(Root, name)
         found == Found(entries)
     IN IF out_path = <<>> \/ ~IsDir(SubSeq(out_path, 1, Len(out_path) - 1))
          THEN /\ pc' = "done"
               /\ exitStatus' = 1
               /\ UNCHANGED <<done, groups, summary, pages>>
          ELSE /\ groups' = [i \in 1..Len(groups) |->
                              IF groups[i].key = g.key
                                THEN [key |-> g.key, entries |-> entries]
                                ELSE groups[i]]
               /\ pages' = [q \in DOMAIN pages \cup {out_path} |->
                              IF q = out_path
                                THEN [kind |-> "group", key |-> g.key,
                                      entries |-> entries]
                                ELSE pages[q]]
               /\ summary' = Append(summary,
                                [key |-> g.key, file |-> out_path[Len(out_path)],
                                 total |-> Len(entries), found |-> found,
                                 missing |-> Len(entries) - found])
               /\ IF done + 1 < Len(groups)
                    THEN done' = done + 1 /\ UNCHANGED pc
                    ELSE done' = 0 /\ pc' = "index"
               /\ UNCHANGED exitStatus
  /\ UNCHANGED <<inputVars, extOrder, scanVars, csvs, rows, run, prev, call>>

\* index.html is written from the summary and main returns 0
WriteIndex ==
  /\ pc = "index"
  /\ pages' = [q \in DOMAIN pages \cup {Root \o <<IndexHtml>>} |->
                 IF q = Root \o <<IndexHtml>>
                   THEN [kind |-> "index", key |-> <<>>, entries |-> summary]
                   ELSE pages[q]]
  /\ pc' = "done"
  /\ exitStatus' = 0
  /\ UNCHANGED <<inputVars, extOrder, scanVars, csvs, rows, done, groups,
                 summary, run, prev, call>>

(***************************************************************************)
(* A second run of the same program on the directory the first run left    *)
(***************************************************************************)
Rerun ==
  /\ pc = "done"
  /\ run = 1
  /\ run' = 2
  /\ prev' = [exitStatus |-> exitStatus, rows |-> rows, groups |-> groups,
              summary |-> summary, mapping |-> mapping]
  /\ extOrder' \in ExtOrders
  /\ pc' = "scan"
  /\ exitStatus' = -1
  /\ visited' = <<>> /\ mapping' = <<>> /\ duplicates' = <<>>
  /\ csvs' = <<>> /\ rows' = <<>> /\ done' = 0 /\ groups' = <<>>
  /\ summary' = <<>>
  /\ UNCHANGED <<inputVars, pages, call>>

(***************************************************************************)
(* Direct calls of resolve_audio_path and dedupe_by_voice                  *)
(***************************************************************************)
\* one call resolve_audio_path(root, filename, audio_index) on the
\* finished index
ResolveCall(filename) ==
  /\ pc = "scan"
  /\ Len(visited) = Cardinality(FilesBelow(Root))
  /\ call.fn = "none"
  /\ call' = [fn |-> "resolve", filename |-> filename,
              result |-> resolve_audio_path(Root, filename, mapping, extOrder)]
  /\ UNCHANGED <<inputVars, extOrder, pc, exitStatus, scanVars, mainVars, run, prev>>

\* lang_name(code): the dict is read and left as it is
LangCall ==
  /\ pc = "call"
  /\ call.fn = "code"
  /\ call' = [fn |-> "lang", code |-> call.code, result |-> lang_name(call.code)]
  /\ table' = table
  /\ UNCHANGED <<program, files, content, unreadable, extOrder, pc, exitStatus,
                 scanVars, mainVars, run, prev>>

\* dedupe_by_voice(entries) on the entries of one language
DedupeCall ==
  /\ pc = "call"
  /\ call.fn = "input"
  /\ call' = [fn |-> "dedupe", entries |-> call.entries,
              out |-> dedupe_by_voice(call.entries)]
  /\ UNCHANGED <<inputVars, extOrder, pc, exitStatus, scanVars, mainVars, run, prev>>

(***************************************************************************)
(* The inputs                                                              *)
(***************************************************************************)
NameAac == <<"a", ".", "a", "a", "c">>
NameUpper == <<"A", ".", "A", "A", "C">>
NameM4a == <<"a", ".", "m", "4", "a">>
NameAcc == <<"b", ".", "a", "c", "c">>
NameTxt == <<"a", ".", "t", "x", "t">>
NameOut == <<"o", ".", "a", "a", "c">>
DirD == <<"d">>
DirX == <<"x">>

FileA == Root \o <<NameAac>>
FileDA == Root \o <<DirD, NameAac>>
FileDUpper == Root \o <<DirD, NameUpper>>
FileM4a == Root \o <<NameM4a>>
FileAcc == Root \o <<DirD, NameAcc>>
FileTxt == Root \o <<NameTxt>>
FileOut == <<DirX, NameOut>>
CsvV == Root \o <<<<"v", ".", "c", "s", "v">>>>
CsvW == Root \o <<DirD, <<"w", ".", "c", "s", "v">>>>

\* the files a tree is drawn from: audio files with equal basenames in two
\* directories and two spellings, one stem under three extensions, a file
\* that is not audio and a file outside the root
TreeFiles == {FileA, FileDA, FileDUpper, FileM4a, FileAcc, FileTxt, FileOut}

Trees == {S \in SUBSET TreeFiles : Cardinality(S) <= MaxAudio}

\* the filenames resolve_audio_path is called with
Filenames ==
  { <<>>, <<"a", ".", "a", "a", "c">>, <<"A", ".", "a", "a", "c">>, <<"d", "/", "a", ".", "a", "a", "c">>, <<"d", "/", "A", ".", "A", "A", "C">>,
    <<"e", "/", "a", ".", "a", "a", "c">>, <<".", "/", "a", ".", "a", "a", "c">>, <<"/", "r", "/", "a", ".", "a", "a", "c">>, <<"/", "x", "/", "o", ".", "a", "a", "c">>,
    <<"a", ".", "w", "a", "v">>, <<"a">>, <<"b", ".", "a", "a", "c">>, <<"z", ".", "a", "a", "c">>, <<"a", ".", "t", "x", "t">>, <<"d">> }

\* the entries dedupe_by_voice is called with
Entries ==
  [engine : { <<"a">>, <<"B">> }, voice : { <<"J">>, <<"j">>, <<>> },
   filename : { <<"f">>, <<"g">> }, exists : BOOLEAN]

EntrySeqs == UNION {[1..n -> Entries] : n \in 0..MaxEntries}

\* the header and the data rows a tabular file is made of
Header == <<<<"L", "A", "N", "G">>, <<" ", "E", "n", "g", "i", "n", "e">>, <<"v", "o", "i", "c", "e">>, <<"G", "E", "N", "D", "E", "R">>, <<"F", "i", "l", "e", "N", "a", "m", "e", " ">>>>

\* a row whose audio is found by its literal path
RowFound == <<<<"e", "n">>, <<"A", "z">>, <<"J">>, <<"F">>, <<"a", ".", "a", "a", "c">>>>
\* a row whose audio is missing, its cells padded with blanks; the engine
\* and the voice differ from RowFound's in case only
RowMissing == <<<<" ", "e", "n">>, <<"a", "z", " ">>, <<"j">>, <<"M">>, <<"z", ".", "a", "a", "c">>>>
\* a row whose audio is found under another extension
RowOtherExt == <<<<"e", "n">>, <<"a", "z">>, <<"K">>, <<"F">>, <<"a", ".", "w", "a", "v">>>>
\* a row of empty cells
RowEmpty == <<<<>>, <<>>, <<>>, <<>>, <<>>>>
\* a row that names an existing file outside the root by its absolute path
RowAbsolute == <<<<"f", "r">>, <<"b">>, <<"J">>, <<"F">>, <<"/", "x", "/", "o", ".", "a", "a", "c">>>>
\* a row that names its audio in a directory that does not exist
RowOtherDir == <<<<"e", "n">>, <<"A", "Z">>, <<"J">>, <<"F">>, <<"q", "/", "a", ".", "a", "a", "c">>>>

RowCells == {RowFound, RowMissing, RowOtherExt, RowEmpty, RowAbsolute}

Line(cells) == [cells |-> cells, nlines |-> 1]

ContentsOf(R) ==
  UNION { { <<Line(Header)>> \o [i \in 1..n |-> Line(c[i])] : c \in [1..n -> R] } :
          n \in 0..MaxRows }

\* a row whose quoted gender cell holds a line break, so that the row
\* takes two lines of the file
RowTwoLines == <<<<"e", "n">>, <<"a", "z">>, <<"K">>, <<"F", "\n", "M">>, <<"z", ".", "a", "a", "c">>>>

\* a file with a blank line between the header and its data row, and a file
\* whose first data row takes two lines
ContentBlank == <<Line(Header), Line(<<>>), Line(RowFound)>>
ContentTwoLines ==
  <<Line(Header), [cells |-> RowTwoLines, nlines |-> 2], Line(RowFound)>>

Contents == ContentsOf(RowCells) \cup {ContentBlank, ContentTwoLines}

ContentW == <<Line(Header), Line(RowOtherDir)>>

\* the codes lang_name is called with: one to three parts joined by "-",
\* as written or padded with a blank, and the empty and the blank code
CodeHeads == {<<"z", "h">>, <<"Z", "H">>, <<"e", "n">>, <<"s", "q">>, <<"x", "x">>}
CodeCountries == {<<"C", "N">>, <<"c", "n">>, <<"U", "S">>, <<"A", "L">>, <<"Y", "Y">>}
CodeRegions == {<<"h", "e", "n", "a", "n">>, <<"f", "o", "o", "_", "b", "a", "r">>, <<"h", "k", "-", "x">>, <<>>}
Pads == {<<>>, <<" ">>}

Codes ==
  {<<>>, <<" ">>}
  \cup {l \o h \o t : l \in Pads, h \in CodeHeads, t \in Pads}
  \cup {l \o h \o <<"-">> \o c \o t :
          l \in Pads, h \in CodeHeads, c \in CodeCountries, t \in Pads}
  \cup {l \o h \o <<"-">> \o c \o <<"-">> \o r \o t :
          l \in Pads, h \in CodeHeads, c \in CodeCountries,
          r \in CodeRegions, t \in Pads}

(***************************************************************************)
(* Specifications                                                          *)
(***************************************************************************)
Idle ==
  /\ exitStatus = -1
  /\ visited = <<>> /\ mapping = <<>> /\ duplicates = <<>>
  /\ csvs = <<>> /\ rows = <<>> /\ done = 0 /\ groups = <<>>
  /\ summary = <<>> /\ pages = <<>>
  /\ run = 1 /\ prev = <<>>
  /\ table = CODE_TO_NAME

\* a tree of audio files is indexed, then filenames are resolved against it
InitResolve ==
  /\ program \in {"language", "provider"}
  /\ files \in Trees
  /\ content = <<>>
  /\ unreadable = {}
  /\ extOrder \in ExtOrders
  /\ pc = "scan"
  /\ call = [fn |-> "none"]
  /\ Idle

NextResolve ==
  \/ \E p \in files : ScanFile(p)
  \/ \E f \in Filenames : ResolveCall(f)

SpecResolve == InitResolve /\ [][NextResolve]_vars

\* dedupe_by_voice is applied to a list of entries
InitDedupe ==
  /\ program = "language"
  /\ files = {}
  /\ content = <<>>
  /\ unreadable = {}
  /\ extOrder = <<ExtAac, ExtAcc, ExtM4a>>
  /\ pc = "call"
  /\ \E es \in EntrySeqs : call = [fn |-> "input", entries |-> es]
  /\ Idle

NextDedupe == DedupeCall

SpecDedupe == InitDedupe /\ [][NextDedupe]_vars

\* lang_name is applied to a code
InitLang ==
  /\ program = "language"
  /\ files = {}
  /\ content = <<>>
  /\ unreadable = {}
  /\ extOrder = <<ExtAac, ExtAcc, ExtM4a>>
  /\ pc = "call"
  /\ \E c \in Codes : call = [fn |-> "code", code |-> c]
  /\ Idle

NextLang == LangCall

SpecLang == InitLang /\ [][NextLang]_vars

\* one run of either program on a directory
Init ==
  /\ program \in {"language", "provider"}
  /\ \E t \in SUBSET {FileA, FileM4a}, c \in Contents :
       \/ files = t \cup {FileOut} /\ content = <<>> /\ unreadable = {}
       \/ files = t \cup {FileOut, CsvV} /\ content = (CsvV :> c) /\
          unreadable = {}
       \/ files = t \cup {FileOut, CsvV, CsvW} /\
          content = (CsvV :> c) @@ (CsvW :> ContentW) /\
          unreadable \in {{}, {CsvW}}
  /\ extOrder \in ExtOrders
  /\ pc = "scan"
  /\ call = [fn |-> "none"]
  /\ Idle

Next ==
  \/ \E p \in files : ScanFile(p)
  \/ FindCsvs
  \/ LoadCsv
  \/ ResolveRow
  \/ DedupeGroup
  \/ EmitPage
  \/ WriteIndex

Spec == Init /\ [][Next]_vars

\* two runs of the same program, one after the other, on one directory
InitTwice ==
  /\ program \in {"language", "provider"}
  /\ \E t \in { {FileA, FileM4a}, {FileA, FileDA} },
        c \in ContentsOf({RowFound, RowOtherExt, RowOtherDir}) :
       /\ files = t \cup {CsvV}
       /\ content = (CsvV :> c)
       /\ unreadable = {}
  /\ extOrder \in ExtOrders
  /\ pc = "scan"
  /\ call = [fn |-> "none"]
  /\ Idle

NextTwice == Next \/ Rerun

SpecTwice == InitTwice /\ [][NextTwice]_vars

(***************************************************************************)
(* The audio index                                                         *)
(***************************************************************************)
\* the audio files among the paths the traversal has yielded, in its order
AudioSeen == SelectSeq(visited, IsAudio)

\* the path of a yielded file as the index stores it: below the root,
\* components joined by "/"
RelOf(p) == AsPosix(SubSeq(p, Len(Root) + 1, Len(p)))

\* C1: while the traversal runs and when it has ended, the keys of the
\* mapping are exactly the lowercased basenames of the audio files yielded,
\* each mapped to the path of the first file yielded with that basename;
\* every later file with that basename stands in the duplicates list of
\* the basename, once and in the order yielded, and no canonical path
\* stands in a duplicates list
C1_FirstSeenCanonical ==
  pc = "scan" =>
    LET seen == AudioSeen
        n == Len(seen)
        keyAt == [i \in 1..n |-> Lower(seen[i][Len(seen[i])])]
        relAt == [i \in 1..n |-> RelOf(seen[i])]
        first == [k \in {keyAt[i] : i \in 1..n} |->
                    CHOOSE i \in 1..n :
                      keyAt[i] = k /\ \A j \in 1..(i - 1) : keyAt[j] # k]
        later == [k \in DOMAIN first |->
                    {i \in 1..n : keyAt[i] = k /\ i # first[k]}]
    IN /\ DOMAIN mapping = DOMAIN first
       /\ \A k \in DOMAIN first : mapping[k] = relAt[first[k]]
       /\ DOMAIN duplicates = {k \in DOMAIN first : later[k] # {}}
       /\ \A k \in DOMAIN duplicates :
            /\ Len(duplicates[k]) = Cardinality(later[k])
            /\ \A i \in later[k] :
                 duplicates[k][Cardinality({j \in later[k] : j <= i})] = relAt[i]
            /\ \A i \in 1..Len(duplicates[k]) :
                 \A m \in DOMAIN mapping : duplicates[k][i] # mapping[m]

\* the traversal has ended on a tree where three files share a basename up
\* to case and the one at the root was not the first one yielded
C1_Witness ==
  /\ pc = "scan"
  /\ Len(visited) = Cardinality(FilesBelow(Root))
  /\ \E k \in DOMAIN duplicates :
       /\ Len(duplicates[k]) = 2
       /\ mapping[k] # k

(***************************************************************************)
(* The resolver                                                            *)
(***************************************************************************)
\* the literal path root/filename of a non-empty filename is a regular
\* file below the root
LiteralBelowRoot(filename) ==
  /\ filename # <<>>
  /\ JoinPath(Root, filename) \in files
  /\ IsPrefix(Root, JoinPath(Root, filename))

\* the lowercased basenames of the audio files below the root
IndexedBasenames ==
  {Lower(p[Len(p)]) : p \in {q \in FilesBelow(Root) : IsAudio(q)}}

\* the lowercased basename of the filename, as a path
BaseOf(filename) == Lower(PathName(filename))

\* C2: a call with a non-empty filename whose literal path root/filename is
\* a regular file below the root returns presence true and a path that,
\* joined to the root, is that very file, whatever the index holds
C2_LiteralPathWins ==
  (call.fn = "resolve" /\ LiteralBelowRoot(call.filename)) =>
    /\ ~call.result.raised
    /\ call.result.exists
    /\ ~ParsePath(call.result.relpath).abs
    /\ Root \o ParsePath(call.result.relpath).parts = JoinPath(Root, call.filename)

\* the literal path is a shadowed duplicate: the index maps its basename
\* to another file, and the call returned the literal path
C2_Witness ==
  /\ call.fn = "resolve"
  /\ call.filename = <<"d", "/", "a", ".", "a", "a", "c">>
  /\ LiteralBelowRoot(call.filename)
  /\ BaseOf(call.filename) \in DOMAIN mapping
  /\ mapping[BaseOf(call.filename)] = <<"a", ".", "a", "a", "c">>
  /\ call.result.relpath = <<"d", "/", "a", ".", "a", "a", "c">>

\* C3 as stated: whenever the basename of the filename is, up to case, the
\* basename of an indexed audio file, the call returns the indexed path
\* with presence true
C3_Original ==
  (call.fn = "resolve" /\ BaseOf(call.filename) \in IndexedBasenames) =>
    /\ ~call.result.raised
    /\ call.result.exists
    /\ call.result.relpath = mapping[BaseOf(call.filename)]

\* C3 amended: whenever the basename of the filename is, up to case, the
\* basename of an indexed audio file and the literal path root/filename is
\* not a regular file, the call returns the indexed path with presence true
C3_BasenameLookup ==
  (/\ call.fn = "resolve"
   /\ BaseOf(call.filename) \in IndexedBasenames
   /\ JoinPath(Root, call.filename) \notin files) =>
    /\ ~call.result.raised
    /\ call.result.exists
    /\ call.result.relpath = mapping[BaseOf(call.filename)]

\* the filename differs in case from the indexed file and names no
\* existing path, the stem is indexed under two extensions, and the call
\* returned the entry of the basename
C3_Witness ==
  /\ call.fn = "resolve"
  /\ call.filename = <<"A", ".", "a", "a", "c">>
  /\ JoinPath(Root, call.filename) \notin files
  /\ {<<"a", ".", "a", "a", "c">>, <<"a", ".", "m", "4", "a">>} \subseteq DOMAIN mapping
  /\ call.result.exists
  /\ call.result.relpath = mapping[<<"a", ".", "a", "a", "c">>]

\* C4: a call with an empty filename returns presence false (and the
\* empty string), whatever the index and the tree hold
C4_EmptyFilenameAbsent ==
  (call.fn = "resolve" /\ call.filename = <<>>) =>
    /\ ~call.result.raised
    /\ ~call.result.exists
    /\ call.result.relpath = <<>>

\* the empty filename was resolved against an index that is not empty
C4_Witness ==
  /\ call.fn = "resolve"
  /\ call.filename = <<>>
  /\ DOMAIN mapping # {}
  /\ ~call.result.exists

\* no step of the fallback chain matches the filename
NoStepMatches(filename) ==
  /\ JoinPath(Root, filename) \notin files
  /\ BaseOf(filename) \notin IndexedBasenames
  /\ \A ext \in AUDIO_EXTS :
       Lower(Stem(PathName(filename)) \o ext) \notin IndexedBasenames

\* C5: a call in which no step of the fallback chain matches returns
\* presence false and the filename it was given
C5_MissReturnsFilename ==
  (call.fn = "resolve" /\ NoStepMatches(call.filename)) =>
    /\ ~call.result.raised
    /\ ~call.result.exists
    /\ call.result.relpath = call.filename

\* a filename with a directory part missed an index that is not empty
C5_Witness ==
  /\ call.fn = "resolve"
  /\ call.filename = <<"e", "/", "a", ".", "a", "a", "c">>
  /\ NoStepMatches(call.filename)
  /\ DOMAIN mapping # {}
  /\ call.result.relpath = call.filename

(***************************************************************************)
(* Deduplication by voice                                                  *)
(***************************************************************************)
\* the voice key as the specification defines it: trimmed and case-folded
KeyOfVoice(voice) == Lower(Strip(voice))

\* how often the record e stands in the list
Count(list, e) == Cardinality({i \in 1..Len(list) : list[i] = e})

\* C6: the result of dedupe_by_voice holds no two records with the same
\* non-empty voice key, it holds every input record whose voice key is
\* empty as often as the input does, and it holds nothing the input lacks
C6_OnePerVoiceKey ==
  call.fn = "dedupe" =>
    /\ \A i, j \in 1..Len(call.out) :
         (i # j /\ KeyOfVoice(call.out[i].voice) # <<>>) =>
           KeyOfVoice(call.out[i].voice) # KeyOfVoice(call.out[j].voice)
    /\ \A i \in 1..Len(call.entries) :
         KeyOfVoice(call.entries[i].voice) = <<>> =>
           Count(call.out, call.entries[i]) = Count(call.entries, call.entries[i])
    /\ \A i \in 1..Len(call.out) : Count(call.entries, call.out[i]) > 0

\* the input held two records whose voices differ in case only and one
\* record without a voice; one of the former and the latter were retained
C6_Witness ==
  /\ call.fn = "dedupe"
  /\ Len(call.entries) = 3
  /\ \E i, j \in 1..3 :
       /\ i # j
       /\ call.entries[i].voice = <<"J">>
       /\ call.entries[j].voice = <<"j">>
  /\ \E i \in 1..3 : call.entries[i].voice = <<>>
  /\ Len(call.out) = 2

\* C7: for any two input records that share a non-empty voice key, one
\* with presence true and one without, the record retained for that key
\* has presence true, and it is the one of the two with presence true when
\* no third record has the key
C7_PresentPreferred ==
  call.fn = "dedupe" =>
    \A i, j \in 1..Len(call.entries) :
      (/\ KeyOfVoice(call.entries[i].voice) # <<>>
       /\ KeyOfVoice(call.entries[i].voice) = KeyOfVoice(call.entries[j].voice)
       /\ call.entries[i].exists
       /\ ~call.entries[j].exists) =>
        /\ \E k \in 1..Len(call.out) :
             KeyOfVoice(call.out[k].voice) = KeyOfVoice(call.entries[i].voice)
        /\ \A k \in 1..Len(call.out) :
             KeyOfVoice(call.out[k].voice) = KeyOfVoice(call.entries[i].voice) =>
               /\ call.out[k].exists
               /\ (\A m \in 1..Len(call.entries) :
                     KeyOfVoice(call.entries[m].voice)
                         = KeyOfVoice(call.entries[i].voice) => m \in {i, j})
                    => call.out[k] = call.entries[i]

\* the record without audio came first in the input and has the smaller
\* provider, voice and filename, and the record with audio was retained
C7_Witness ==
  /\ call.fn = "dedupe"
  /\ Len(call.entries) = 2
  /\ call.entries[1] = [engine |-> <<"a">>, voice |-> <<"J">>, filename |-> <<"f">>,
                        exists |-> FALSE]
  /\ call.entries[2] = [engine |-> <<"B">>, voice |-> <<"j">>, filename |-> <<"g">>,
                        exists |-> TRUE]
  /\ call.out = <<call.entries[2]>>

(***************************************************************************)
(* The run as a whole                                                      *)
(***************************************************************************)
\* the path of the page of a group key, and of the index page
PagePath(key) == JoinPath(Root, PageName(key))

IndexPath == Root \o <<IndexHtml>>

\* C8: a run that found no tabular file ends with status 2 and has written
\* no page; every other run ends with status 0, the page of every group
\* and the index page written
C8_ExitStatus ==
  pc = "done" =>
    IF CsvPaths(Root) = {}
      THEN exitStatus = 2 /\ DOMAIN pages = {}
      ELSE /\ exitStatus = 0
           /\ IndexPath \in DOMAIN pages
           /\ \A i \in 1..Len(groups) : PagePath(groups[i].key) \in DOMAIN pages

\* what a run produced: the members of every group, the counts of every
\* group, and the resolution of every record
Membership(gs) ==
  {<<gs[i].key, {<<gs[i].entries[j].source_csv, gs[i].entries[j].rownum>> :
                    j \in 1..Len(gs[i].entries)}>> : i \in 1..Len(gs)}

Counts(sm) ==
  {<<sm[i].key, sm[i].total, sm[i].found, sm[i].missing>> : i \in 1..Len(sm)}

Resolutions(rs) ==
  {<<rs[i].source_csv, rs[i].rownum, rs[i].relpath, rs[i].exists>> :
     i \in 1..Len(rs)}

\* C9: when the second run on the directory has ended, its groups have the
\* members, its summary the counts, and its records the resolved paths and
\* presence flags of the first run
C9_Idempotent ==
  (run = 2 /\ pc = "done" /\ exitStatus = 0 /\ prev.exitStatus = 0) =>
    /\ Membership(groups) = Membership(prev.groups)
    /\ Counts(summary) = Counts(prev.summary)
    /\ Resolutions(rows) = Resolutions(prev.rows)

\* C10: after a run that ended with status 0, the pages of two groups with
\* distinct keys are distinct files, and the page of every group shows the
\* key and the records of that group
C10_OnePagePerGroup ==
  (pc = "done" /\ exitStatus = 0) =>
    /\ \A i, j \in 1..Len(groups) :
         groups[i].key # groups[j].key =>
           PagePath(groups[i].key) # PagePath(groups[j].key)
    /\ \A i \in 1..Len(groups) :
         /\ PagePath(groups[i].key) \in DOMAIN pages
         /\ pages[PagePath(groups[i].key)] =
              [kind |-> "group", key |-> groups[i].key,
               entries |-> groups[i].entries]


(***************************************************************************)
(* Failures of a source or a record                                        *)
(***************************************************************************)
\* the records of the tabular file c that are among the loaded rows
LoadedFrom(c) ==
  {i \in 1..Len(rows) : rows[i].source_csv = RelativeTo(c, Root).rel}

\* C11: a run that found tabular files ends with status 0 and the index
\* page written, whatever source or record failed on the way, and every
\* record of every readable source has been loaded
C11_PartialFailureTolerance ==
  (pc = "done" /\ CsvPaths(Root) # {}) =>
    /\ exitStatus = 0
    /\ IndexPath \in DOMAIN pages
    /\ \A c \in CsvPaths(Root) \ unreadable :
         Cardinality(LoadedFrom(c)) = Len(read_rows_from_csv(c, Root, program))


(***************************************************************************)
(* Shadowed duplicates                                                     *)
(***************************************************************************)
\* the paths the indexer recorded as shadowed duplicates
Shadowed ==
  UNION {{duplicates[k][i] : i \in 1..Len(duplicates[k])} : k \in DOMAIN duplicates}

\* C12 as stated: whatever the filename, the path resolve_audio_path
\* returns is not the path of a shadowed duplicate
C12_Original ==
  (call.fn = "resolve" /\ ~call.result.raised) =>
    call.result.relpath \notin Shadowed

\* C12: for a filename whose literal path is not an existing file, the path
\* resolve_audio_path returns is not the path of a shadowed duplicate
C12_IndexNeverShadowed ==
  (call.fn = "resolve" /\ ~IsFile(JoinPath(Root, call.filename))) =>
    /\ ~call.result.raised
    /\ call.result.relpath \notin Shadowed

\* a filename in a directory that does not exist, its basename shared by
\* two indexed files, has been resolved through the index
C12_Witness ==
  /\ call.fn = "resolve"
  /\ ~IsFile(JoinPath(Root, call.filename))
  /\ Lower(PathName(call.filename)) \in DOMAIN duplicates
  /\ call.result.exists


(***************************************************************************)
(* The fields of a loaded record                                           *)
(***************************************************************************)
\* C13: in both programs every loaded record has a language and an engine
\* that are not empty
C13_LangEngineNonEmpty ==
  \A i \in 1..Len(rows) : rows[i].lang # <<>> /\ rows[i].engine # <<>>


(***************************************************************************)
(* The display name of a language code                                     *)
(***************************************************************************)
\* whether a code has the form zh-CN-<region>, letters in either case
IsRegionOfChina(code) ==
  /\ Len(code) >= 6
  /\ Lower(SubSeq(code, 1, 6)) = <<"z", "h", "-", "c", "n", "-">>

RegionOf(code) == SubSeq(code, 7, Len(code))

\* the name "Chinese (<Region>, China)": the region with "_" read as a
\* blank and every word capitalised
IsChineseRegionName(name, region) ==
  /\ Len(name) = Len(region) + 17
  /\ SubSeq(name, 1, 9) = <<"C", "h", "i", "n", "e", "s", "e", " ", "(">>
  /\ SubSeq(name, Len(name) - 7, Len(name)) = <<",", " ", "C", "h", "i", "n", "a", ")">>
  /\ LET shown == SubSeq(name, 10, Len(name) - 8)
     IN /\ Lower(shown) = Lower(ReplaceUnderscore(region))
        /\ \A i \in 1..Len(shown) :
             IsLetter(shown[i]) =>
               (shown[i] \in DOMAIN LowerTable <=>
                  (i = 1 \/ ~IsLetter(shown[i - 1])))

\* what the display name of a code is to be, the code taken as given
NameAsStated(code, result) ==
  IF code \in DOMAIN CODE_TO_NAME THEN result = CODE_TO_NAME[code]
  ELSE IF IsRegionOfChina(code) THEN IsChineseRegionName(result, RegionOf(code))
  ELSE result = code

\* C14 as stated: lang_name leaves the table as it is and returns the
\* table's name for a code of the table, "Chinese (<Region>, China)" for
\* another code zh-CN-<region>, and every other code as it was given
C14_Original ==
  call.fn = "lang" =>
    /\ table = CODE_TO_NAME
    /\ NameAsStated(call.code, call.result)

\* C14: lang_name leaves the table as it is and names the code with the
\* blanks around it removed: the table's name for a code of the table,
\* "Chinese (<Region>, China)" for another code zh-CN-<region>, "unknown"
\* for the empty code and the code itself otherwise
C14_LangName ==
  call.fn = "lang" =>
    /\ table = CODE_TO_NAME
    /\ IF Strip(call.code) = <<>> THEN call.result = Unknown
       ELSE NameAsStated(Strip(call.code), call.result)

\* a region of China that the table does not list has been named
C14_Witness ==
  /\ call.fn = "lang"
  /\ call.code = <<"z", "h", "-", "C", "N", "-", "f", "o", "o", "_", "b", "a", "r">>
  /\ call.result = <<"C", "h", "i", "n", "e", "s", "e", " ", "(", "F", "o", "o", " ", "B", "a", "r", ",", " ", "C", "h", "i", "n", "a", ")">>


(***************************************************************************)
(* Extension substitution                                                  *)
(***************************************************************************)
\* the filename reaches the extension step and its stem is indexed under
\* more than one allowed extension
StemUnderSeveralExts(filename) ==
  /\ filename # <<>>
  /\ ~IsFile(JoinPath(Root, filename))
  /\ Lower(PathName(filename)) \notin DOMAIN mapping
  /\ Cardinality({e \in AUDIO_EXTS :
                    Lower(Stem(PathName(filename)) \o e) \in DOMAIN mapping}) > 1

\* C15: a second run that built the same index resolves every filename
\* whose stem is indexed under several extensions to the path the first
\* run resolved it to
C15_ExtensionDeterministic ==
  (run = 2 /\ pc = "done" /\ exitStatus = 0 /\ prev.exitStatus = 0
     /\ mapping = prev.mapping) =>
    \A i \in 1..Len(rows) :
      StemUnderSeveralExts(rows[i].filename) =>
        rows[i].relpath = prev.rows[i].relpath


(***************************************************************************)
(* The record kept for a voice key                                         *)
(***************************************************************************)
\* a comes before b in the order: present before absent, then the
\* provider name with its case folded, the voice and the filename ascending
ComesBefore(a, b) ==
  IF a.exists # b.exists THEN a.exists
  ELSE IF Lower(a.engine) # Lower(b.engine)
    THEN StrLess(Lower(a.engine), Lower(b.engine))
  ELSE IF a.voice # b.voice THEN StrLess(a.voice, b.voice)
  ELSE StrLess(a.filename, b.filename)

\* C16: of the records that share a voice key that is not empty,
\* dedupe_by_voice keeps exactly one, and no record of them comes before
\* the kept one in the order
C16_MinimumRetained ==
  call.fn = "dedupe" =>
    \A i \in 1..Len(call.entries) :
      LET k == KeyOfVoice(call.entries[i].voice)
          kept == {j \in 1..Len(call.out) : KeyOfVoice(call.out[j].voice) = k}
      IN k # <<>> =>
           /\ Cardinality(kept) = 1
           /\ \A j \in kept, m \in 1..Len(call.entries) :
                KeyOfVoice(call.entries[m].voice) = k =>
                  ~ComesBefore(call.entries[m], call.out[j])

\* of two present records of one voice key the second, whose provider
\* comes first once the case is folded, has been kept
C16_Witness ==
  /\ call.fn = "dedupe"
  /\ Len(call.entries) = 2
  /\ call.entries[1] = [engine |-> <<"B">>, voice |-> <<"j">>, filename |-> <<"f">>,
                        exists |-> TRUE]
  /\ call.entries[2] = [engine |-> <<"a">>, voice |-> <<"J">>, filename |-> <<"g">>,
                        exists |-> TRUE]
  /\ call.out = <<call.entries[2]>>


(***************************************************************************)
(* The row number of a record                                              *)
(***************************************************************************)
\* the tabular file a record names as its source
SourceOf(r) ==
  CHOOSE c \in CsvPaths(Root) : RelativeTo(c, Root).rel = r.source_csv

\* the position among the rows of the file of its n-th row with cells,
\* the header not counted
NthDataLine(lines, n) ==
  CHOOSE k \in 2..Len(lines) :
    /\ lines[k].cells # <<>>
    /\ Cardinality({j \in 2..k : lines[j].cells # <<>>}) = n

\* the 1-based line of the file on which its k-th row begins
RECURSIVE StartLine(_, _)
StartLine(lines, k) ==
  IF k = 1 THEN 1 ELSE StartLine(lines, k - 1) + lines[k - 1].nlines

\* C17: the row number of every loaded record is the line of its source
\* file on which its data row begins, the header being line 1
C17_RowNumberIsLine ==
  \A i \in 1..Len(rows) :
    LET lines == content[SourceOf(rows[i])]
        n == Cardinality({j \in 1..i : rows[j].source_csv = rows[i].source_csv})
    IN rows[i].rownum = StartLine(lines, NthDataLine(lines, n))


(***************************************************************************)
(* The groups of the by-provider program                                   *)
(***************************************************************************)
\* the places, group and position, at which the record r stands
PlacesOf(r) ==
  {<<g, j>> \in (1..Len(groups)) \X (1..Len(rows)) :
     j <= Len(groups[g].entries) /\ groups[g].entries[j] = r}

\* the sum of the totals of the lines of a summary
RECURSIVE SumTotals(_)
SumTotals(sm) == IF sm = <<>> THEN 0 ELSE Head(sm).total + SumTotals(Tail(sm))

\* C18: after a run of the by-provider program that ended with status 0,
\* every loaded record stands at exactly one place of exactly one group,
\* the totals the index page reports sum to the number of records, and
\* found + missing = total in every line of the index
C18_GroupsPartitionRows ==
  (program = "provider" /\ pc = "done" /\ exitStatus = 0) =>
    /\ \A i \in 1..Len(rows) : Cardinality(PlacesOf(rows[i])) = 1
    /\ \A g \in 1..Len(groups) : \A j \in 1..Len(groups[g].entries) :
         \E i \in 1..Len(rows) : rows[i] = groups[g].entries[j]
    /\ SumTotals(pages[IndexPath].entries) = Len(rows)
    /\ \A k \in 1..Len(pages[IndexPath].entries) :
         LET s == pages[IndexPath].entries[k]
         IN /\ s.found + s.missing = s.total
            /\ s.found >= 0 /\ s.missing >= 0
            /\ \E g \in 1..Len(groups) :
                 groups[g].key = s.key /\ Len(groups[g].entries) = s.total

\* a run of the by-provider program has ended with status 0 on three
\* records in two groups, one record found and one missing
C18_Witness ==
  /\ program = "provider" /\ pc = "done" /\ exitStatus = 0
  /\ Len(rows) = 3
  /\ Len(groups) = 2
  /\ \E i, j \in 1..3 : rows[i].exists /\ ~rows[j].exists

====
